---- MODULE Spec2Model ----
(***************************************************************************)
(* GraphWeightingEngine (app/routes/utils/graph_weighting_engine.py): the  *)
(* multi-factor weighting of astrological correspondences.                 *)
(*                                                                         *)
(* Numbers.  The engine computes in floating point; the model computes the *)
(* same expressions over exact rationals, each quantity an integer         *)
(* numerator over a scale that is stated where the quantity is defined:    *)
(*   graph proximity          tenths                                       *)
(*   astrological authority   1/720000  (= 1/4 * 1/180 * 1/1000)           *)
(*   temporal relevance       ten-thousandths                              *)
(*   elemental weather        [num, den]: per axis num[a] / den            *)
(*   elemental dominance      [num, den]                                   *)
(*   final weight             [num, den], den a multiple of 7200000        *)
(* round(x, 3) is modelled as rounding the exact value half-to-even.       *)
(*                                                                         *)
(* Python values.  None is the string None below.  d.get(k, default) on a  *)
(* missing key is modelled by the key holding the default; a dict is a     *)
(* record or a function, the empty dict the empty function.                *)
(***************************************************************************)
EXTENDS Integers, FiniteSets, Sequences, TLC

VARIABLES
    weight_factors, \* the engine's coefficient table (tenths)
    pc,             \* "idle" | "called" | "returned"
    op,             \* the method being called / last called
    arg,            \* its arguments
    ret,            \* its return value
    first,          \* history (SpecIdem): the first composition of the run
                    \* and the number n of compositions made
    frame           \* (SpecThreads) the locals of a composition that runs
                    \* while another thread may assign weight_factors

vars == <<weight_factors, pc, op, arg, ret, first, frame>>

None == "<None>"

Null == [status |-> "none"]

(***************************************************************************)
(* Bounds of the model.                                                    *)
(***************************************************************************)
\* altitudes are the multiples of AltStep degrees from -AltStep*MaxBelow
\* to AltStep*MaxAbove
AltStep == 6

MaxBelow == 2

MaxAbove == 17

\* the compositions a run of SpecIdem makes
MaxCalls == 3

\* weather strengths handed to the alignment scorer directly range over
\* -MaxStrength/2 .. MaxStrength/2 in steps of 0.5
MaxStrength == 3

\* the longest path length the proximity claims look at
MaxHops == 8

Altitudes == {AltStep * k : k \in (0 - MaxBelow)..MaxAbove}

(***************************************************************************)
(* Arithmetic helpers.                                                     *)
(***************************************************************************)
Min(a, b) == IF a <= b THEN a ELSE b

Max(a, b) == IF a >= b THEN a ELSE b

RECURSIVE GCD(_, _)
GCD(a, b) == IF b = 0 THEN a ELSE GCD(b, a % b)

\* round(n / unit) to an integer, ties to the even neighbour: Python's round
RoundHalfEven(n, unit) ==
    LET q == n \div unit
        r == n % unit
    IN  IF 2 * r > unit \/ (2 * r = unit /\ q % 2 = 1) THEN q + 1 ELSE q

\* round(c * n / unit), ties to even, computed without forming c * n
MulDivRound(c, n, unit) ==
    LET x    == c * (n % unit)
        base == c * (n \div unit) + (x \div unit)
        rem  == x % unit
    IN  IF 2 * rem > unit \/ (2 * rem = unit /\ base % 2 = 1)
        THEN base + 1 ELSE base

\* self.weight_factors as __init__ sets it, in tenths
DefaultFactors ==
    [graph_proximity |-> 3, astrological_authority |-> 4,
     temporal_relevance |-> 2, elemental_dominance |-> 1]

(***************************************************************************)
(* ESSENTIAL_DIGNITIES and the planetary strength (section 2 of the file). *)
(***************************************************************************)
ESSENTIAL_DIGNITIES ==
    ( "Sun"     :> [rulership |-> "Leo", exaltation |-> "Aries",
                    detriment |-> "Aquarius", fall |-> "Libra"] ) @@
    ( "Moon"    :> [rulership |-> "Cancer", exaltation |-> "Taurus",
                    detriment |-> "Capricorn", fall |-> "Scorpio"] ) @@
    ( "Mercury" :> [rulership |-> "Gemini", exaltation |-> "Virgo",
                    detriment |-> "Sagittarius", fall |-> "Pisces"] ) @@
    ( "Venus"   :> [rulership |-> "Taurus", exaltation |-> "Pisces",
                    detriment |-> "Scorpio", fall |-> "Virgo"] ) @@
    ( "Mars"    :> [rulership |-> "Aries", exaltation |-> "Capricorn",
                    detriment |-> "Libra", fall |-> "Cancer"] ) @@
    ( "Jupiter" :> [rulership |-> "Sagittarius", exaltation |-> "Cancer",
                    detriment |-> "Gemini", fall |-> "Capricorn"] ) @@
    ( "Saturn"  :> [rulership |-> "Capricorn", exaltation |-> "Libra",
                    detriment |-> "Cancer", fall |-> "Aries"] )

\* ESSENTIAL_DIGNITIES.get(planet, {}).get(key): None for an unknown planet
DignitySign(planet, key) ==
    IF planet \in DOMAIN ESSENTIAL_DIGNITIES
    THEN ESSENTIAL_DIGNITIES[planet][key]
    ELSE None

\* in quarters: 6 = 1.5, 5 = 1.25, 3 = 0.75, 2 = 0.5, 4 = 1.0
_get_dignity_multiplier(planet, sign) ==
    IF sign = DignitySign(planet, "rulership") THEN 6
    ELSE IF sign = DignitySign(planet, "exaltation") THEN 5
    ELSE IF sign = DignitySign(planet, "detriment") THEN 3
    ELSE IF sign = DignitySign(planet, "fall") THEN 2
    ELSE 4

AuthorityScale == 4 * 180 * 1000

\* a variant whose cazimi bonus is x 1.5
AuthorityProductCazimiHalf(planet, position) ==
    LET dignity_mult == _get_dignity_multiplier(planet, position.sign)
        visibility_mult == IF position.altitude >= 0
                           THEN 180 + position.altitude
                           ELSE 108
        sun_mult == IF position.is_cazimi THEN 15
                    ELSE IF position.is_combust THEN 3
                    ELSE 10
        retro_mult == IF position.is_retrograde THEN 7 ELSE 10
        oob_mult == IF planet = "Moon" /\ position.is_out_of_bounds
                    THEN 4 ELSE 10
    IN  dignity_mult * visibility_mult * sun_mult * retro_mult * oob_mult

\* the product before the clamp, over AuthorityScale
AuthorityProduct(planet, position) ==
    LET dignity_mult == _get_dignity_multiplier(planet, position.sign)
        visibility_mult == IF position.altitude >= 0
                           THEN 180 + position.altitude
                           ELSE 108
        sun_mult == IF position.is_cazimi THEN 13
                    ELSE IF position.is_combust THEN 3
                    ELSE 10
        retro_mult == IF position.is_retrograde THEN 7 ELSE 10
        oob_mult == IF planet = "Moon" /\ position.is_out_of_bounds
                    THEN 4 ELSE 10
    IN  dignity_mult * visibility_mult * sun_mult * retro_mult * oob_mult

\* a variant that gives an absent planet the floor 0.1
AuthorityAbsentFloor(planet, planetary_positions) ==
    IF planet \notin DOMAIN planetary_positions
    THEN AuthorityScale \div 10
    ELSE Max(Min(AuthorityProduct(planet, planetary_positions[planet]),
                 3 * AuthorityScale),
             AuthorityScale \div 10)

\* a variant whose floor is the neutral 0.5 of the absent planet
AuthorityNeutralFloor(planet, planetary_positions) ==
    IF planet \notin DOMAIN planetary_positions
    THEN AuthorityScale \div 2
    ELSE Max(Min(AuthorityProduct(planet, planetary_positions[planet]),
                 3 * AuthorityScale),
             AuthorityScale \div 2)

\* a variant without the lower clamp
AuthorityWithoutFloor(planet, planetary_positions) ==
    IF planet \notin DOMAIN planetary_positions
    THEN AuthorityScale \div 2
    ELSE Min(AuthorityProduct(planet, planetary_positions[planet]),
             3 * AuthorityScale)

\* over AuthorityScale
calculate_astrological_authority(planet, planetary_positions) ==
    IF planet \notin DOMAIN planetary_positions
    THEN AuthorityScale \div 2
    ELSE Max(Min(AuthorityProduct(planet, planetary_positions[planet]),
                 3 * AuthorityScale),
             AuthorityScale \div 10)

(***************************************************************************)
(* Inputs of the strength evaluation.                                      *)
(***************************************************************************)
Signs == {"Aries", "Taurus", "Gemini", "Cancer", "Leo", "Virgo", "Libra",
          "Scorpio", "Sagittarius", "Capricorn", "Aquarius", "Pisces"}

\* a sign, the default "" of a missing key, or an explicit None
SignValues == Signs \cup {"", None}

\* the seven classical planets and one planet outside the catalog
PlanetNames == DOMAIN ESSENTIAL_DIGNITIES \cup {"Pluto"}

Positions == [sign : SignValues, altitude : Altitudes,
              is_cazimi : BOOLEAN, is_combust : BOOLEAN,
              is_retrograde : BOOLEAN, is_out_of_bounds : BOOLEAN]

\* the empty dict
EmptyDict == << >>

InitAuthority ==
    /\ weight_factors = DefaultFactors
    /\ pc = "called"
    /\ op = "calculate_astrological_authority"
    /\ \/ \E p \in PlanetNames, c \in Positions :
             arg = [planet |-> p, planetary_positions |-> (p :> c)]
       \/ \E p \in PlanetNames \cup {None} :
             arg = [planet |-> p, planetary_positions |-> EmptyDict]
    /\ ret = Null
    /\ first = Null
    /\ frame = Null

AuthorityCall ==
    /\ pc = "called"
    /\ op = "calculate_astrological_authority"
    /\ ret' = [status |-> "ok",
               value |-> calculate_astrological_authority(
                             arg.planet, arg.planetary_positions)]
    /\ pc' = "returned"
    /\ UNCHANGED <<weight_factors, op, arg, first, frame>>

SpecAuthority == InitAuthority /\ [][AuthorityCall]_vars

(***************************************************************************)
(* Temporal relevance (section 3 of the file), in ten-thousandths.         *)
(***************************************************************************)
TemporalScale == 10 * 1000

\* a variant whose bonus for the matching weekday is x 1.6
TemporalBaseLargeBonus(relationship, hour_ruler, day_ruler, current_weekday) ==
    IF relationship.source_planet = hour_ruler
    THEN IF relationship.target_type = "Weekday"
            /\ relationship.target_name # current_weekday
         THEN (1800 * 3) \div 10
         ELSE 1800
    ELSE IF relationship.source_planet = day_ruler
    THEN IF relationship.target_type = "Weekday"
            /\ relationship.target_name = current_weekday
         THEN (1200 * 16) \div 10
         ELSE 1200
    ELSE 600

\* a variant that looks at the day ruler before the hour ruler
TemporalBaseDayFirst(relationship, hour_ruler, day_ruler, current_weekday) ==
    IF relationship.source_planet = day_ruler
    THEN IF relationship.target_type = "Weekday"
            /\ relationship.target_name = current_weekday
         THEN (1200 * 13) \div 10
         ELSE 1200
    ELSE IF relationship.source_planet = hour_ruler
    THEN IF relationship.target_type = "Weekday"
            /\ relationship.target_name # current_weekday
         THEN (1800 * 3) \div 10
         ELSE 1800
    ELSE 600

\* base_relevance before the relationship type modifier, in thousandths
TemporalBase(relationship, hour_ruler, day_ruler, current_weekday) ==
    IF relationship.source_planet = hour_ruler
    THEN IF relationship.target_type = "Weekday"
            /\ relationship.target_name # current_weekday
         THEN (1800 * 3) \div 10
         ELSE 1800
    ELSE IF relationship.source_planet = day_ruler
    THEN IF relationship.target_type = "Weekday"
            /\ relationship.target_name = current_weekday
         THEN (1200 * 13) \div 10
         ELSE 1200
    ELSE 600

\* the relationship type modifier, in tenths
TemporalTypeModifier(rel_type) ==
    IF rel_type = "HOUR_RULED_BY" THEN 15
    ELSE IF rel_type = "DAY_RULED_BY" THEN 10
    ELSE IF rel_type = "HAS_ANALOGY_WITH" THEN 8
    ELSE 10

\* a variant without the upper clamp
RelevanceWithoutCeiling(relationship, hour_ruler, day_ruler, current_weekday) ==
    Max(TemporalBase(relationship, hour_ruler, day_ruler, current_weekday)
        * TemporalTypeModifier(relationship.relationship_type),
        TemporalScale \div 10)

calculate_temporal_relevance(relationship, hour_ruler, day_ruler, current_weekday) ==
    LET base_relevance ==
            TemporalBase(relationship, hour_ruler, day_ruler, current_weekday)
            * TemporalTypeModifier(relationship.relationship_type)
    IN  Max(Min(base_relevance, 2 * TemporalScale), TemporalScale \div 10)

(***************************************************************************)
(* Relationships.  A relationship dict has the keys source_planet,         *)
(* target_entity {name, type}, relationship_type and, for the temporal     *)
(* scorer, target_type and target_name; a missing key reads as None.       *)
(***************************************************************************)
\* relationship.get("target_entity") of a relationship without the key
NoEntity == [name |-> None, type |-> None]

RelationshipTypes == {"HOUR_RULED_BY", "DAY_RULED_BY", "HAS_ANALOGY_WITH",
                      "SYMBOLIZES", None}

Rulers == {"Mars", "Saturn", None}

Weekdays == {"Saturday", "Tuesday", None}

InitTemporal ==
    /\ weight_factors = DefaultFactors
    /\ pc = "called"
    /\ op = "calculate_temporal_relevance"
    /\ \E s \in {"Mars", "Saturn", "Moon", None},
          rt \in RelationshipTypes,
          tt \in {"Weekday", "Angel", None},
          tn \in {"Tuesday", "Saturday", "Sachiel", None},
          hr \in Rulers, dr \in Rulers, wd \in Weekdays :
          arg = [relationship |->
                     [source_planet |-> s, target_entity |-> NoEntity,
                      relationship_type |-> rt, target_type |-> tt,
                      target_name |-> tn],
                 hour_ruler |-> hr, day_ruler |-> dr, current_weekday |-> wd]
    /\ ret = Null
    /\ first = Null
    /\ frame = Null

TemporalCall ==
    /\ pc = "called"
    /\ op = "calculate_temporal_relevance"
    /\ ret' = [status |-> "ok",
               value |-> calculate_temporal_relevance(
                             arg.relationship, arg.hour_ruler, arg.day_ruler,
                             arg.current_weekday)]
    /\ pc' = "returned"
    /\ UNCHANGED <<weight_factors, op, arg, first, frame>>

SpecTemporal == InitTemporal /\ [][TemporalCall]_vars

(***************************************************************************)
(* Graph proximity (section 1 of the file), in tenths.  graph_data is an   *)
(* adjacency dict: node -> set of neighbours.                              *)
(***************************************************************************)
direct_connections ==
    ( "Mars" :> {"Iron", "Sachiel", "Tuesday", "Red"} ) @@
    ( "Sun"  :> {"Gold", "Michael", "Sunday", "Yellow"} ) @@
    ( "Moon" :> {"Silver", "Gabriel", "Monday"} )

\* a variant without the test for equal names
PathLengthWithoutSelfTest(source, target, graph_data) ==
    IF source \in DOMAIN direct_connections
       /\ target \in direct_connections[source]
    THEN 1
    ELSE 3

_find_shortest_path_length(source, target, graph_data) ==
    IF source = target THEN 0
    ELSE IF source \in DOMAIN direct_connections
            /\ target \in direct_connections[source]
    THEN 1
    ELSE 3

\* a variant whose buckets for two and three hops coincide
ProximityFlatBuckets(path_length) ==
    IF path_length = 1 THEN 10
    ELSE IF path_length = 2 THEN 7
    ELSE IF path_length = 3 THEN 7
    ELSE IF path_length = 4 THEN 2
    ELSE 1

\* the if/elif chain over path_length
ProximityOfLength(path_length) ==
    IF path_length = 1 THEN 10
    ELSE IF path_length = 2 THEN 7
    ELSE IF path_length = 3 THEN 4
    ELSE IF path_length = 4 THEN 2
    ELSE 1

calculate_graph_proximity_weight(source_entity, target_entity, graph_data) ==
    ProximityOfLength(
        _find_shortest_path_length(source_entity, target_entity, graph_data))

\* the adjacency dict of a set of undirected edges {a, b}
GraphOf(edges) ==
    [n \in UNION edges |-> {m \in UNION edges : {n, m} \in edges /\ m # n}]

ChainEdges == {{"Mars", "Iron"}, {"Iron", "Forge"}, {"Forge", "Vulcan"},
               {"Vulcan", "Etna"}, {"Etna", "Sicily"}}

Graphs == {EmptyDict, GraphOf({{"Venus", "Copper"}}), GraphOf(ChainEdges)}

InitProximity ==
    /\ weight_factors = DefaultFactors
    /\ pc = "called"
    /\ op = "calculate_graph_proximity_weight"
    /\ \E s \in {"Mars", "Sun", "Moon", "Venus", "Iron", None},
          t \in {"Iron", "Forge", "Vulcan", "Etna", "Sicily", "Silver",
                 "Copper", "Mars", "Gold", ""},
          g \in Graphs :
          arg = [source_entity |-> s, target_entity |-> t, graph_data |-> g]
    /\ ret = Null
    /\ first = Null
    /\ frame = Null

ProximityCall ==
    /\ pc = "called"
    /\ op = "calculate_graph_proximity_weight"
    /\ ret' = [status |-> "ok",
               value |-> calculate_graph_proximity_weight(
                             arg.source_entity, arg.target_entity,
                             arg.graph_data)]
    /\ pc' = "returned"
    /\ UNCHANGED <<weight_factors, op, arg, first, frame>>

SpecProximity == InitProximity /\ [][ProximityCall]_vars

(***************************************************************************)
(* Elemental weather and dominance (section 4 of the file).  A weather     *)
(* vector is [num, den]: the strength of axis a is num[a] / den.           *)
(***************************************************************************)
Axes == {"Fire", "Earth", "Air", "Water", "Hot", "Cold", "Dry", "Moist"}

\* a planet's table, in tenths; an axis the table does not name has 0
ElementTable(entries) ==
    [a \in Axes |-> IF a \in DOMAIN entries THEN entries[a] ELSE 0]

ruler_elements ==
    ( "Sun"     :> ElementTable([Fire |-> 8, Hot |-> 9, Dry |-> 6]) ) @@
    ( "Moon"    :> ElementTable([Water |-> 8, Cold |-> 6, Moist |-> 9]) ) @@
    ( "Mars"    :> ElementTable([Fire |-> 9, Hot |-> 8, Dry |-> 7]) ) @@
    ( "Venus"   :> ElementTable([Earth |-> 7, Moist |-> 8]) ) @@
    ( "Mercury" :> ElementTable([Air |-> 8, Cold |-> 6, Dry |-> 6]) ) @@
    ( "Jupiter" :> ElementTable([Air |-> 7, Hot |-> 7, Moist |-> 6]) ) @@
    ( "Saturn"  :> ElementTable([Earth |-> 9, Cold |-> 9, Dry |-> 8]) )

RECURSIVE SetMax(_)
SetMax(S) ==
    IF S = {} THEN 0
    ELSE LET x == CHOOSE y \in S : TRUE
         IN  Max(x, SetMax(S \ {x}))

\* a variant that reports every axis at full strength when no ruler is
\* recognized
WeatherUniformWhenEmpty(planetary_positions, hour_ruler, day_ruler) ==
    LET hour(a) == IF hour_ruler \in DOMAIN ruler_elements
                   THEN ruler_elements[hour_ruler][a] * 10
                   ELSE 0
        day(a)  == IF day_ruler \in DOMAIN ruler_elements
                      /\ day_ruler # hour_ruler
                   THEN ruler_elements[day_ruler][a] * 6
                   ELSE 0
        elemental_weather == [a \in Axes |-> hour(a) + day(a)]
        max_val == SetMax({elemental_weather[a] : a \in Axes})
    IN  IF max_val > 0
        THEN [num |-> elemental_weather, den |-> max_val]
        ELSE [num |-> [a \in Axes |-> 1], den |-> 1]

\* a variant that divides by the largest entry of the hour ruler alone
WeatherHourMax(planetary_positions, hour_ruler, day_ruler) ==
    LET hour(a) == IF hour_ruler \in DOMAIN ruler_elements
                   THEN ruler_elements[hour_ruler][a] * 10
                   ELSE 0
        day(a)  == IF day_ruler \in DOMAIN ruler_elements
                      /\ day_ruler # hour_ruler
                   THEN ruler_elements[day_ruler][a] * 6
                   ELSE 0
        elemental_weather == [a \in Axes |-> hour(a) + day(a)]
        max_val == SetMax({hour(a) : a \in Axes})
    IN  IF max_val > 0
        THEN [num |-> elemental_weather, den |-> max_val]
        ELSE [num |-> elemental_weather, den |-> 1]

\* a variant in which the day ruler contributes even when it rules the hour
WeatherDayAlways(planetary_positions, hour_ruler, day_ruler) ==
    LET total(a) ==
            (IF hour_ruler \in DOMAIN ruler_elements
             THEN ruler_elements[hour_ruler][a] * 10 ELSE 0)
            + (IF day_ruler \in DOMAIN ruler_elements
               THEN ruler_elements[day_ruler][a] * 6 ELSE 0)
        elemental_weather == [a \in Axes |-> total(a)]
        max_val == SetMax({elemental_weather[a] : a \in Axes})
    IN  [num |-> elemental_weather,
         den |-> IF max_val > 0 THEN max_val ELSE 1]

\* the totals are in hundredths: strength * 1.0 and strength * 0.6
calculate_current_elemental_weather(planetary_positions, hour_ruler, day_ruler) ==
    LET hour(a) == IF hour_ruler \in DOMAIN ruler_elements
                   THEN ruler_elements[hour_ruler][a] * 10
                   ELSE 0
        day(a)  == IF day_ruler \in DOMAIN ruler_elements
                      /\ day_ruler # hour_ruler
                   THEN ruler_elements[day_ruler][a] * 6
                   ELSE 0
        elemental_weather == [a \in Axes |-> hour(a) + day(a)]
        max_val == SetMax({elemental_weather[a] : a \in Axes})
    IN  IF max_val > 0
        THEN [num |-> elemental_weather, den |-> max_val]
        ELSE [num |-> elemental_weather, den |-> 1]

InitWeather ==
    /\ weight_factors = DefaultFactors
    /\ pc = "called"
    /\ op = "calculate_current_elemental_weather"
    /\ \E hr \in PlanetNames \cup {None}, dr \in PlanetNames \cup {None} :
          arg = [planetary_positions |-> EmptyDict, hour_ruler |-> hr,
                 day_ruler |-> dr]
    /\ ret = Null
    /\ first = Null
    /\ frame = Null

WeatherCall ==
    /\ pc = "called"
    /\ op = "calculate_current_elemental_weather"
    /\ ret' = [status |-> "ok",
               value |-> calculate_current_elemental_weather(
                             arg.planetary_positions, arg.hour_ruler,
                             arg.day_ruler)]
    /\ pc' = "returned"
    /\ UNCHANGED <<weight_factors, op, arg, first, frame>>

SpecWeather == InitWeather /\ [][WeatherCall]_vars

\* "Iron" in entity_name, for the entity names of the model: the names
\* that hold the substring
NamesContaining ==
    [Iron   |-> {"Iron", "Ironwood", "Silver Iron"},
     Silver |-> {"Silver", "Silver Iron"},
     Gold   |-> {"Gold", "Goldenrod"}]

_get_entity_elements(entity) ==
    IF entity.name \in NamesContaining["Iron"] THEN {"Fire", "Dry"}
    ELSE IF entity.name \in NamesContaining["Silver"] THEN {"Water", "Moist"}
    ELSE IF entity.name \in NamesContaining["Gold"] THEN {"Fire", "Hot"}
    ELSE {}

RECURSIVE SumOver(_, _)
SumOver(f, S) ==
    IF S = {} THEN 0
    ELSE LET x == CHOOSE y \in S : TRUE
         IN  f[x] + SumOver(f, S \ {x})

\* a variant that lowers the score by the strengths it shares
DominanceSubtracting(target_entity, current_elemental_weather) ==
    LET entity_elements == _get_entity_elements(target_entity)
        w == current_elemental_weather
        alignment_score ==
            10 * w.den - 3 * SumOver(w.num, DOMAIN w.num \cap entity_elements)
    IN  IF entity_elements = {}
        THEN [num |-> 10 * w.den, den |-> 10 * w.den]
        ELSE [num |-> Max(Min(alignment_score, 15 * w.den), 5 * w.den),
              den |-> 10 * w.den]

\* a variant without the lower clamp
DominanceWithoutFloor(target_entity, current_elemental_weather) ==
    LET entity_elements == _get_entity_elements(target_entity)
        w == current_elemental_weather
        alignment_score ==
            10 * w.den + 3 * SumOver(w.num, DOMAIN w.num \cap entity_elements)
    IN  IF entity_elements = {}
        THEN [num |-> 10 * w.den, den |-> 10 * w.den]
        ELSE [num |-> Min(alignment_score, 15 * w.den), den |-> 10 * w.den]

\* a variant that adds the strengths at x 0.5
DominanceHalfStep(target_entity, current_elemental_weather) ==
    LET entity_elements == _get_entity_elements(target_entity)
        w == current_elemental_weather
        alignment_score ==
            10 * w.den + 5 * SumOver(w.num, DOMAIN w.num \cap entity_elements)
    IN  IF entity_elements = {}
        THEN [num |-> 10 * w.den, den |-> 10 * w.den]
        ELSE [num |-> Max(Min(alignment_score, 15 * w.den), 5 * w.den),
              den |-> 10 * w.den]

\* [num, den] with den = 10 * weather.den: 1.0 + sum of strength * 0.3
calculate_elemental_dominance(target_entity, current_elemental_weather) ==
    LET entity_elements == _get_entity_elements(target_entity)
        w == current_elemental_weather
        alignment_score ==
            10 * w.den + 3 * SumOver(w.num, DOMAIN w.num \cap entity_elements)
    IN  IF entity_elements = {}
        THEN [num |-> 10 * w.den, den |-> 10 * w.den]
        ELSE [num |-> Max(Min(alignment_score, 15 * w.den), 5 * w.den),
              den |-> 10 * w.den]

(***************************************************************************)
(* Inputs of the alignment scorer: entity dicts with and without a name,   *)
(* and weather dicts, both those the aggregator returns and others:        *)
(* strengths below 0 and above 1, and dicts that lack an axis.             *)
(***************************************************************************)
EntityNames == {"Iron", "Ironwood", "Silver", "Silver Iron", "Gold",
                "Sachiel", None}

StrengthValues == {5 * k : k \in (0 - MaxStrength)..MaxStrength}

\* a weather dict in tenths whose other axes are 0
WeatherOf(fire, dry, water) ==
    [num |-> [a \in Axes |-> CASE a = "Fire" -> fire
                              [] a = "Dry" -> dry
                              [] a = "Water" -> water
                              [] OTHER -> 0],
     den |-> 10]

\* the dict without the key
Without(w, a) ==
    [num |-> [b \in DOMAIN w.num \ {a} |-> w.num[b]], den |-> w.den]

InitDominance ==
    /\ weight_factors = DefaultFactors
    /\ pc = "called"
    /\ op = "calculate_elemental_dominance"
    /\ \E n \in EntityNames :
          \E w \in {calculate_current_elemental_weather(EmptyDict, hr, dr) :
                      hr \in PlanetNames \cup {None},
                      dr \in PlanetNames \cup {None}}
                 \cup {WeatherOf(f, d, x) : f \in StrengthValues,
                                            d \in StrengthValues,
                                            x \in StrengthValues}
                 \cup {Without(WeatherOf(f, d, x), "Fire") :
                           f \in {0}, d \in StrengthValues,
                           x \in StrengthValues} :
             arg = [target_entity |-> [name |-> n, type |-> None],
                    current_elemental_weather |-> w]
    /\ ret = Null
    /\ first = Null
    /\ frame = Null

DominanceCall ==
    /\ pc = "called"
    /\ op = "calculate_elemental_dominance"
    /\ ret' = [status |-> "ok",
               value |-> calculate_elemental_dominance(
                             arg.target_entity,
                             arg.current_elemental_weather)]
    /\ pc' = "returned"
    /\ UNCHANGED <<weight_factors, op, arg, first, frame>>

SpecDominance == InitDominance /\ [][DominanceCall]_vars

(***************************************************************************)
(* The master weighting function (section 5 of the file).                  *)
(***************************************************************************)
\* over FinalScale(weather.den)
_calculate_rank(weight, scale) ==
    IF weight >= 2 * scale THEN "dominant"
    ELSE IF weight >= scale + scale \div 2 THEN "strong"
    ELSE IF weight >= scale THEN "moderate"
    ELSE IF weight >= scale \div 2 THEN "weak"
    ELSE "minimal"

\* in thousandths; weight is over scale
_calculate_confidence(weight, scale, context) ==
    LET c1 == IF context.planetary_positions = EmptyDict THEN 5 ELSE 10
        c2 == IF context.hour_ruler = None THEN 8 ELSE 10
        c3 == IF context.graph_data = EmptyDict THEN 7 ELSE 10
        data_completeness == c1 * c2 * c3       \* thousandths
        g == GCD(data_completeness, 2 * scale)
    IN  IF weight >= 2 * scale
        THEN data_completeness
        ELSE MulDivRound(data_completeness \div g, weight, (2 * scale) \div g)

\* the common denominator of the four weighted sub-scores: the least
\* common multiple of 7200000 and 100 * weather.den
FinalScale(weather_den) ==
    7200000 * (weather_den \div GCD(weather_den, 72000))

\* a variant that subtracts the astrological term
WeightedSumAuthoritySubtracted(graph_weight, astro_weight, temporal_weight, elemental_weight, factors) ==
    LET d == elemental_weight.den \div 10
        scale == FinalScale(d)
    IN  graph_weight * factors.graph_proximity * (scale \div 100)
        - astro_weight * factors.astrological_authority * (scale \div 7200000)
        + temporal_weight * factors.temporal_relevance * (scale \div 100000)
        + elemental_weight.num * factors.elemental_dominance
          * (scale \div (100 * d))

\* a variant that gives the astrological and the temporal sub-score each
\* other's coefficient
WeightedSumSwapped(graph_weight, astro_weight, temporal_weight, elemental_weight, factors) ==
    LET d == elemental_weight.den \div 10
        scale == FinalScale(d)
    IN  graph_weight * factors.graph_proximity * (scale \div 100)
        + astro_weight * factors.temporal_relevance * (scale \div 7200000)
        + temporal_weight * factors.astrological_authority
          * (scale \div 100000)
        + elemental_weight.num * factors.elemental_dominance
          * (scale \div (100 * d))

\* the unrounded final_weight over FinalScale, for coefficients in tenths
WeightedSum(graph_weight, astro_weight, temporal_weight, elemental_weight, factors) ==
    LET d == elemental_weight.den \div 10
        scale == FinalScale(d)
    IN  graph_weight * factors.graph_proximity * (scale \div 100)
        + astro_weight * factors.astrological_authority * (scale \div 7200000)
        + temporal_weight * factors.temporal_relevance * (scale \div 100000)
        + elemental_weight.num * factors.elemental_dominance
          * (scale \div (100 * d))

\* a variant that reports the final_weight to 2 decimals
FinalWeightToTwoDecimals(relationship, context, factors) ==
    LET source_planet == relationship.source_planet
        target_entity == relationship.target_entity
        graph_weight == calculate_graph_proximity_weight(
            source_planet, target_entity.name, context.graph_data)
        astro_weight == calculate_astrological_authority(
            source_planet, context.planetary_positions)
        temporal_weight == calculate_temporal_relevance(
            relationship, context.hour_ruler, context.day_ruler,
            context.current_weekday)
        elemental_weather == calculate_current_elemental_weather(
            context.planetary_positions, context.hour_ruler,
            context.day_ruler)
        elemental_weight == calculate_elemental_dominance(
            target_entity, elemental_weather)
        scale == FinalScale(elemental_weather.den)
        final_weight == WeightedSum(graph_weight, astro_weight,
                                    temporal_weight, elemental_weight, factors)
    IN  IF target_entity = NoEntity
        THEN [status |-> "raised", error |-> "AttributeError"]
        ELSE [status |-> "ok",
              final_weight |-> 10 * RoundHalfEven(final_weight, scale \div 100),
              breakdown |->
                [graph_proximity |-> graph_weight * 100,
                 astrological_authority |->
                     RoundHalfEven(astro_weight, AuthorityScale \div 1000),
                 temporal_relevance |->
                     RoundHalfEven(temporal_weight, TemporalScale \div 1000),
                 elemental_dominance |->
                     RoundHalfEven(1000 * elemental_weight.num,
                                   elemental_weight.den),
                 elemental_weather |-> elemental_weather],
              rank |-> _calculate_rank(final_weight, scale),
              confidence |-> _calculate_confidence(final_weight, scale,
                                                   context)]

calculate_final_weight(relationship, context, factors) ==
    LET source_planet == relationship.source_planet
        target_entity == relationship.target_entity
        graph_weight == calculate_graph_proximity_weight(
            source_planet, target_entity.name, context.graph_data)
        astro_weight == calculate_astrological_authority(
            source_planet, context.planetary_positions)
        temporal_weight == calculate_temporal_relevance(
            relationship, context.hour_ruler, context.day_ruler,
            context.current_weekday)
        elemental_weather == calculate_current_elemental_weather(
            context.planetary_positions, context.hour_ruler,
            context.day_ruler)
        elemental_weight == calculate_elemental_dominance(
            target_entity, elemental_weather)
        scale == FinalScale(elemental_weather.den)
        final_weight == WeightedSum(graph_weight, astro_weight,
                                    temporal_weight, elemental_weight, factors)
    IN  IF target_entity = NoEntity
        THEN [status |-> "raised", error |-> "AttributeError"]
        ELSE [status |-> "ok",
              final_weight |-> RoundHalfEven(final_weight, scale \div 1000),
              breakdown |->
                [graph_proximity |-> graph_weight * 100,
                 astrological_authority |->
                     RoundHalfEven(astro_weight, AuthorityScale \div 1000),
                 temporal_relevance |->
                     RoundHalfEven(temporal_weight, TemporalScale \div 1000),
                 elemental_dominance |->
                     RoundHalfEven(1000 * elemental_weight.num,
                                   elemental_weight.den),
                 elemental_weather |-> elemental_weather],
              rank |-> _calculate_rank(final_weight, scale),
              confidence |-> _calculate_confidence(final_weight, scale,
                                                   context)]

(***************************************************************************)
(* The engine in use: a caller composes relationships one after another on *)
(* one GraphWeightingEngine and may replace the coefficient table between  *)
(* two compositions.                                                       *)
(***************************************************************************)
Entities ==
    {[name |-> "Iron", type |-> "Metal"],
     [name |-> "Silver", type |-> "Metal"],
     [name |-> "Sachiel", type |-> "Angel"],
     [name |-> "Tuesday", type |-> "Weekday"],
     [name |-> "Saturday", type |-> "Weekday"]}

\* a relationship as test_complex_scenarios builds it: no target_type and
\* no target_name key
Nested(s, e, rt) ==
    [source_planet |-> s, target_entity |-> e, relationship_type |-> rt,
     target_type |-> None, target_name |-> None]

\* a relationship that also carries the target's type and name as keys
Flat(s, e, rt) ==
    [source_planet |-> s, target_entity |-> e, relationship_type |-> rt,
     target_type |-> e.type, target_name |-> e.name]

ComposeRelationships ==
    { Nested(s, e, rt) : s \in Rulers, e \in Entities \cup {NoEntity},
                         rt \in {"HOUR_RULED_BY", "DAY_RULED_BY", None} }
    \cup { Flat(s, e, rt) : s \in Rulers,
                            e \in {x \in Entities : x.type = "Weekday"},
                            rt \in {"HOUR_RULED_BY", "DAY_RULED_BY", None} }

ComposePositions ==
    [sign : {"Aries"}, altitude : {(0 - 2) * AltStep, 8 * AltStep},
     is_cazimi : BOOLEAN, is_combust : BOOLEAN, is_retrograde : BOOLEAN,
     is_out_of_bounds : {FALSE}]

MoonOnly ==
    "Moon" :> [sign |-> "Cancer", altitude |-> 5 * AltStep,
               is_cazimi |-> FALSE, is_combust |-> FALSE,
               is_retrograde |-> FALSE, is_out_of_bounds |-> TRUE]

\* the planetary_positions maps a relationship of source s is composed with
PositionMaps(s) ==
    IF s = None
    THEN {EmptyDict, MoonOnly}
    ELSE {EmptyDict, MoonOnly}
         \cup { s :> c : c \in {x \in ComposePositions :
                                   ~(x.is_cazimi /\ x.is_combust)} }

\* the values of a context's hour_ruler and day_ruler: a classical planet,
\* a name that is none, or no value
ContextRulers == Rulers \cup {"Pluto"}

\* a coefficient table a caller may install instead of the default
OtherFactors ==
    [graph_proximity |-> 1, astrological_authority |-> 7,
     temporal_relevance |-> 1, elemental_dominance |-> 1]

FactorTables == {DefaultFactors, OtherFactors}

Init ==
    /\ weight_factors = DefaultFactors
    /\ pc = "idle"
    /\ op = "none"
    /\ arg = Null
    /\ ret = Null
    /\ first = Null
    /\ frame = Null

\* the caller calls engine.calculate_final_weight(relationship, context)
ComposeBegin ==
    /\ pc = "idle"
    /\ \E r \in ComposeRelationships, hr \in ContextRulers,
          dr \in ContextRulers, wd \in {"Saturday", None},
          g \in {EmptyDict, GraphOf(ChainEdges)} :
          \E pp \in PositionMaps(r.source_planet) :
             arg' = [relationship |-> r,
                     context |-> [hour_ruler |-> hr, day_ruler |-> dr,
                                  current_weekday |-> wd,
                                  planetary_positions |-> pp,
                                  graph_data |-> g]]
    /\ op' = "calculate_final_weight"
    /\ pc' = "called"
    /\ ret' = Null
    /\ UNCHANGED <<weight_factors, first, frame>>

\* a variant that normalises the coefficient table in place while composing
ComposeStepInPlace ==
    /\ pc = "called"
    /\ op = "calculate_final_weight"
    /\ ret' = calculate_final_weight(arg.relationship, arg.context,
                                     weight_factors)
    /\ pc' = "returned"
    /\ weight_factors' = DefaultFactors
    /\ UNCHANGED <<op, arg>>

\* a variant that subscripts the context, context["hour_ruler"], where the
\* code uses context.get
ComposeStepSubscript ==
    /\ pc = "called"
    /\ op = "calculate_final_weight"
    /\ ret' = IF arg.context.hour_ruler = None
              THEN [status |-> "raised", error |-> "KeyError"]
              ELSE calculate_final_weight(arg.relationship, arg.context,
                                          weight_factors)
    /\ pc' = "returned"
    /\ UNCHANGED <<weight_factors, op, arg>>

\* the body of calculate_final_weight: what it reads and what it writes
ComposeStep ==
    /\ pc = "called"
    /\ op = "calculate_final_weight"
    /\ ret' = calculate_final_weight(arg.relationship, arg.context,
                                     weight_factors)
    /\ pc' = "returned"
    /\ UNCHANGED <<weight_factors, op, arg>>

Compose == ComposeStep /\ UNCHANGED <<first, frame>>

\* the caller has used the result and drops it
ComposeEnd ==
    /\ pc = "returned"
    /\ pc' = "idle"
    /\ op' = "none"
    /\ arg' = Null
    /\ ret' = Null
    /\ UNCHANGED <<weight_factors, first, frame>>

\* the caller assigns engine.weight_factors
Reconfigure ==
    /\ pc = "idle"
    /\ \E f \in FactorTables : weight_factors' = f
    /\ weight_factors' # weight_factors
    /\ UNCHANGED <<pc, op, arg, ret, first, frame>>

Next == ComposeBegin \/ Compose \/ ComposeEnd \/ Reconfigure

Spec == Init /\ [][Next]_vars

(***************************************************************************)
(* The same, remembering the first composition of the run.                 *)
(***************************************************************************)
IdemPositions ==
    {EmptyDict,
     "Mars" :> [sign |-> "Aries", altitude |-> 8 * AltStep,
                is_cazimi |-> FALSE, is_combust |-> FALSE,
                is_retrograde |-> FALSE, is_out_of_bounds |-> FALSE]}

IdemBegin ==
    /\ pc = "idle"
    /\ first.status = "set" => first.n < MaxCalls
    /\ \E s \in {"Mars", None},
          e \in {x \in Entities : x.name \in {"Iron", "Tuesday"}},
          hr \in {"Mars", None}, pp \in IdemPositions :
          arg' = [relationship |-> Nested(s, e, "HOUR_RULED_BY"),
                  context |-> [hour_ruler |-> hr, day_ruler |-> "Saturn",
                               current_weekday |-> "Saturday",
                               planetary_positions |-> pp,
                               graph_data |-> EmptyDict]]
    /\ op' = "calculate_final_weight"
    /\ pc' = "called"
    /\ ret' = Null
    /\ UNCHANGED <<weight_factors, first, frame>>

IdemCompose ==
    /\ ComposeStep
    /\ first' = IF first.status = "none"
                THEN [status |-> "set", arg |-> arg,
                      weight_factors |-> weight_factors, ret |-> ret',
                      n |-> 1]
                ELSE [first EXCEPT !.n = @ + 1]
    /\ UNCHANGED frame

NextIdem == IdemBegin \/ IdemCompose \/ ComposeEnd \/ Reconfigure

SpecIdem == Init /\ [][NextIdem]_vars

(***************************************************************************)
(* A composition on one thread while another thread assigns                *)
(* engine.weight_factors.  The sum of lines 363-368 evaluates              *)
(* self.weight_factors[key] four times, once per coefficient and in the    *)
(* order of FactorKeys, and the interpreter may switch threads between any *)
(* two of the reads.  The assignment of a whole table is one step.  frame  *)
(* holds the coefficients read so far and, as history, the tables that     *)
(* were installed while the composition ran.                               *)
(***************************************************************************)
FactorKeys == <<"graph_proximity", "astrological_authority",
                "temporal_relevance", "elemental_dominance">>

ThreadsBegin ==
    /\ pc = "idle"
    /\ \E s \in {"Mars", None},
          e \in {x \in Entities : x.name \in {"Iron", "Tuesday"}},
          hr \in {"Mars", None}, pp \in IdemPositions :
          arg' = [relationship |-> Nested(s, e, "HOUR_RULED_BY"),
                  context |-> [hour_ruler |-> hr, day_ruler |-> "Saturn",
                               current_weekday |-> "Saturday",
                               planetary_positions |-> pp,
                               graph_data |-> EmptyDict]]
    /\ op' = "calculate_final_weight"
    /\ pc' = "called"
    /\ ret' = Null
    /\ frame' = [status |-> "running", read |-> << >>,
                 installed |-> {weight_factors}]
    /\ UNCHANGED <<weight_factors, first>>

\* self.weight_factors[key] for the next key of the sum
ReadFactor ==
    /\ pc = "called"
    /\ op = "calculate_final_weight"
    /\ frame.status = "running"
    /\ Len(frame.read) < Len(FactorKeys)
    /\ frame' = [frame EXCEPT !.read =
                    Append(@, weight_factors[FactorKeys[Len(@) + 1]])]
    /\ UNCHANGED <<weight_factors, pc, op, arg, ret, first>>

\* the coefficients the composition has read, as a table
FactorsRead(read) ==
    [graph_proximity |-> read[1], astrological_authority |-> read[2],
     temporal_relevance |-> read[3], elemental_dominance |-> read[4]]

\* the rest of calculate_final_weight, with the coefficients as read
ThreadsReturn ==
    /\ pc = "called"
    /\ op = "calculate_final_weight"
    /\ frame.status = "running"
    /\ Len(frame.read) = Len(FactorKeys)
    /\ ret' = calculate_final_weight(arg.relationship, arg.context,
                                     FactorsRead(frame.read))
    /\ pc' = "returned"
    /\ UNCHANGED <<weight_factors, op, arg, first, frame>>

ThreadsEnd ==
    /\ pc = "returned"
    /\ pc' = "idle"
    /\ op' = "none"
    /\ arg' = Null
    /\ ret' = Null
    /\ frame' = Null
    /\ UNCHANGED <<weight_factors, first>>

\* another thread assigns engine.weight_factors = <another table>
ReconfigureFromOtherThread ==
    /\ \E f \in FactorTables : weight_factors' = f
    /\ weight_factors' # weight_factors
    /\ frame' = IF pc = "called"
                THEN [frame EXCEPT !.installed = @ \cup {weight_factors'}]
                ELSE frame
    /\ UNCHANGED <<pc, op, arg, ret, first>>

NextThreads ==
    \/ ThreadsBegin
    \/ ReadFactor
    \/ ThreadsReturn
    \/ ThreadsEnd
    \/ ReconfigureFromOtherThread

SpecThreads == Init /\ [][NextThreads]_vars

(***************************************************************************)
(* The dominance comparison of hour and day ruler.  Its code               *)
(* (GraphWeightCalculator.calculate_hour_vs_day_dominance of the module    *)
(* graph_weighting_system) is not in the repository's sources; only its    *)
(* caller is.  It is modelled from section 4.5 of the specification: both  *)
(* strengths are evaluated by the strength rule, for which the engine's    *)
(* calculate_astrological_authority stands, and the planet with the        *)
(* strictly greater strength is dominant.  On a tie the specification      *)
(* leaves the choice open: either planet may be returned.                  *)
(***************************************************************************)
\* a PlanetaryCondition as the position dict of the strength rule
ConditionPosition(condition) ==
    [sign |-> condition.sign, altitude |-> condition.altitude,
     is_cazimi |-> condition.is_cazimi, is_combust |-> condition.is_combust,
     is_retrograde |-> condition.is_retrograde,
     is_out_of_bounds |-> condition.is_out_of_bounds]

calculate_planet_strength(condition) ==
    calculate_astrological_authority(
        condition.planet, condition.planet :> ConditionPosition(condition))

\* the results calculate_hour_vs_day_dominance may return
calculate_hour_vs_day_dominance(hour_condition, day_condition) ==
    LET hour_w == calculate_planet_strength(hour_condition)
        day_w  == calculate_planet_strength(day_condition)
        dominants == IF hour_w > day_w THEN {hour_condition.planet}
                     ELSE IF day_w > hour_w THEN {day_condition.planet}
                     ELSE {hour_condition.planet, day_condition.planet}
    IN  {[status |-> "ok", hour_weight |-> hour_w, day_weight |-> day_w,
          dominant |-> d] : d \in dominants}

Condition(planet, sign, altitude, combust, retrograde) ==
    [planet |-> planet, sign |-> sign, altitude |-> altitude,
     is_cazimi |-> FALSE, is_combust |-> combust,
     is_retrograde |-> retrograde, is_out_of_bounds |-> FALSE]

InitComparator ==
    /\ weight_factors = DefaultFactors
    /\ pc = "called"
    /\ op = "calculate_hour_vs_day_dominance"
    /\ \E hs \in {"Aries", "Capricorn"}, ds \in {"Pisces", "Taurus", "Virgo"},
          ha \in {(0 - 2) * AltStep, 8 * AltStep},
          da \in {(0 - 2) * AltStep, 8 * AltStep},
          hc \in BOOLEAN, dc \in BOOLEAN, hr \in BOOLEAN :
          arg = [hour_condition |-> Condition("Saturn", hs, ha, hc, hr),
                 day_condition |-> Condition("Venus", ds, da, dc, FALSE)]
    /\ ret = Null
    /\ first = Null
    /\ frame = Null

ComparatorCall ==
    /\ pc = "called"
    /\ op = "calculate_hour_vs_day_dominance"
    /\ ret' \in calculate_hour_vs_day_dominance(arg.hour_condition,
                                                arg.day_condition)
    /\ pc' = "returned"
    /\ UNCHANGED <<weight_factors, op, arg, first, frame>>

SpecComparator == InitComparator /\ [][ComparatorCall]_vars

(***************************************************************************)
(* Claims.                                                                 *)
(***************************************************************************)
Returned(method) == pc = "returned" /\ op = method

\* the cut points of the rank label, over a weight in thousandths
CutPointRank(w) ==
    IF w >= 2000 THEN "dominant"
    ELSE IF w >= 1500 THEN "strong"
    ELSE IF w >= 1000 THEN "moderate"
    ELSE IF w >= 500 THEN "weak"
    ELSE "minimal"

\* C1: with the default coefficients, the final_weight that
\* calculate_final_weight returns is graph_proximity * 0.3 +
\* astrological_authority * 0.4 + temporal_relevance * 0.2 +
\* elemental_dominance * 0.1 of the four sub-scores, rounded to 3 decimals.
\* The sum is formed over 7200000 * d, d the weather's denominator.
C1_FinalWeightIsWeightedSum ==
    (Returned("calculate_final_weight") /\ ret.status = "ok"
     /\ weight_factors = DefaultFactors) =>
        LET r == arg.relationship
            c == arg.context
            g == calculate_graph_proximity_weight(
                     r.source_planet, r.target_entity.name, c.graph_data)
            a == calculate_astrological_authority(
                     r.source_planet, c.planetary_positions)
            t == calculate_temporal_relevance(
                     r, c.hour_ruler, c.day_ruler, c.current_weekday)
            w == calculate_current_elemental_weather(
                     c.planetary_positions, c.hour_ruler, c.day_ruler)
            e == calculate_elemental_dominance(r.target_entity, w)
            d == w.den
            sum == 3 * g * 72000 * d + 4 * a * d + 2 * t * 72 * d
                   + 1 * e.num * 72000
        IN  ret.final_weight = RoundHalfEven(sum, 7200 * d)

\* C1 witness: Mars -> Iron in a Mars hour of a Saturn day, Mars in Aries
\* at altitude 48: 1.0 * 0.3 + 1.9 * 0.4 + 2.0 * 0.2 + 1.5 * 0.1 = 1.61
C1_Witness ==
    /\ Returned("calculate_final_weight")
    /\ weight_factors = DefaultFactors
    /\ ret.status = "ok"
    /\ arg.relationship = Nested("Mars", [name |-> "Iron", type |-> "Metal"],
                                 "HOUR_RULED_BY")
    /\ arg.context.hour_ruler = "Mars"
    /\ arg.context.day_ruler = "Saturn"
    /\ ret.breakdown.graph_proximity = 1000
    /\ ret.breakdown.astrological_authority = 1900
    /\ ret.breakdown.temporal_relevance = 2000
    /\ ret.breakdown.elemental_dominance = 1500
    /\ ret.final_weight = 1610

\* C2 (as claimed): the rank of every WeightResult is the label the cut
\* points 2.0 / 1.5 / 1.0 / 0.5 give for the final_weight the result
\* reports, whatever the coefficient table.
C2_RankOfReportedWeight ==
    (Returned("calculate_final_weight") /\ ret.status = "ok") =>
        ret.rank = CutPointRank(ret.final_weight)

\* C3: a composition leaves the engine's weight_factors and its arguments
\* as they were, and composing the arguments and coefficients of the run's
\* first composition again, after any other compositions and
\* reconfigurations, returns the first composition's WeightResult.
C3_Idempotent ==
    /\ [](Returned("calculate_final_weight") /\ first.status = "set"
          /\ arg = first.arg /\ weight_factors = first.weight_factors
          => ret = first.ret)
    /\ [][pc = "called" /\ pc' = "returned"
          => weight_factors' = weight_factors /\ arg' = arg]_vars

\* C3 witness: the first composition's arguments composed again as the
\* third composition of the run, with the same result
C3_Witness ==
    /\ Returned("calculate_final_weight")
    /\ first.status = "set"
    /\ first.n = 3
    /\ arg = first.arg
    /\ weight_factors = first.weight_factors
    /\ ret.status = "ok"
    /\ ret = first.ret

\* C4: the strength calculate_astrological_authority returns lies in
\* [0.1, 3.0], and is exactly 0.1 whenever the product of the multipliers
\* is below 0.1.
C4_StrengthRange ==
    Returned("calculate_astrological_authority") =>
        /\ ret.value >= AuthorityScale \div 10
        /\ ret.value <= 3 * AuthorityScale
        /\ (arg.planet \in DOMAIN arg.planetary_positions
            /\ AuthorityProduct(arg.planet,
                                arg.planetary_positions[arg.planet])
               < AuthorityScale \div 10)
           => ret.value = AuthorityScale \div 10

\* C4 witness: fall, below the horizon, combust and retrograde: the product
\* 0.5 * 0.6 * 0.3 * 0.7 = 0.063 is reported as 0.1
C4_Witness ==
    /\ Returned("calculate_astrological_authority")
    /\ arg.planet = "Saturn"
    /\ arg.planetary_positions =
         ("Saturn" :> [sign |-> "Aries", altitude |-> -12,
                       is_cazimi |-> FALSE, is_combust |-> TRUE,
                       is_retrograde |-> TRUE, is_out_of_bounds |-> FALSE])
    /\ 1000 * AuthorityProduct("Saturn", arg.planetary_positions["Saturn"])
         = 63 * AuthorityScale
    /\ ret.value = AuthorityScale \div 10

\* the dignity multiplier of the claim, in quarters: by the dignity the
\* catalog gives the planet in the sign, 1.0 where it gives none
ClaimedDignity(planet, sign) ==
    IF planet \notin DOMAIN ESSENTIAL_DIGNITIES THEN 4
    ELSE IF sign = ESSENTIAL_DIGNITIES[planet].rulership THEN 6
    ELSE IF sign = ESSENTIAL_DIGNITIES[planet].exaltation THEN 5
    ELSE IF sign = ESSENTIAL_DIGNITIES[planet].detriment THEN 3
    ELSE IF sign = ESSENTIAL_DIGNITIES[planet].fall THEN 2
    ELSE 4

\* clamp(D * V * C * R * O, 0.1, 3.0) of the claim, over AuthorityScale
ClaimedStrength(planet, position) ==
    LET D == ClaimedDignity(planet, position.sign)
        V == IF position.altitude >= 0 THEN 180 + position.altitude ELSE 108
        C == IF position.is_cazimi THEN 13
             ELSE IF position.is_combust THEN 3 ELSE 10
        R == IF position.is_retrograde THEN 7 ELSE 10
        O == IF planet = "Moon" /\ position.is_out_of_bounds THEN 4 ELSE 10
    IN  Max(AuthorityScale \div 10, Min(3 * AuthorityScale, D * V * C * R * O))

\* C5 (as claimed): for a planet with a condition present the strength is
\* clamp(D * V * C * R * O, 0.1, 3.0), D the multiplier of the planet's
\* dignity in the sign and 1.0 where it has none.
C5_StrengthFormula ==
    (Returned("calculate_astrological_authority")
     /\ arg.planet \in DOMAIN arg.planetary_positions) =>
        ret.value = ClaimedStrength(arg.planet,
                                    arg.planetary_positions[arg.planet])

\* the relevance of the claim, in ten-thousandths
ClaimedRelevance(relationship, hour_ruler, day_ruler, current_weekday) ==
    LET weekday_target == relationship.target_type = "Weekday"
        base == CASE relationship.source_planet = hour_ruler ->
                       IF weekday_target
                          /\ relationship.target_name # current_weekday
                       THEN 540 ELSE 1800
                  [] relationship.source_planet # hour_ruler
                     /\ relationship.source_planet = day_ruler ->
                       IF weekday_target
                          /\ relationship.target_name = current_weekday
                       THEN 1560 ELSE 1200
                  [] OTHER -> 600
        typeMult == CASE relationship.relationship_type = "HOUR_RULED_BY" -> 15
                      [] relationship.relationship_type = "HAS_ANALOGY_WITH"
                           -> 8
                      [] OTHER -> 10
    IN  Max(1000, Min(20000, base * typeMult))

\* C6: calculate_temporal_relevance returns clamp(base * typeMult, 0.1, 2.0)
\* with base 1.8 for the hour ruler (x 0.3 for a Weekday target other than
\* the current weekday), else 1.2 for the day ruler (x 1.3 for the Weekday
\* target of the current weekday), else 0.6, and typeMult 1.5 / 1.0 / 0.8
\* by relationship type, 1.0 for any other or missing type.
C6_TemporalFormula ==
    Returned("calculate_temporal_relevance") =>
        ret.value = ClaimedRelevance(arg.relationship, arg.hour_ruler,
                                     arg.day_ruler, arg.current_weekday)

\* C6 witness: Mars rules the hour and the day and takes the hour branch
C6_Witness ==
    /\ Returned("calculate_temporal_relevance")
    /\ arg.relationship.source_planet = "Mars"
    /\ arg.hour_ruler = "Mars"
    /\ arg.day_ruler = "Mars"
    /\ arg.relationship.target_type = "Weekday"
    /\ arg.relationship.target_name = "Saturday"
    /\ arg.current_weekday = "Saturday"
    /\ arg.relationship.relationship_type = "DAY_RULED_BY"
    /\ ret.value = 18000

\* C7: the relevance calculate_temporal_relevance returns lies in
\* [0.1, 2.0], missing rulers and unrecognized types included.
C7_TemporalRange ==
    Returned("calculate_temporal_relevance") =>
        /\ ret.value >= TemporalScale \div 10
        /\ ret.value <= 2 * TemporalScale

\* C7 witness: the hour ruler in an HOUR_RULED_BY relationship, 1.8 * 1.5 =
\* 2.7, is returned as 2.0
C7_Witness ==
    /\ Returned("calculate_temporal_relevance")
    /\ arg.relationship.source_planet = arg.hour_ruler
    /\ arg.relationship.target_type = None
    /\ arg.relationship.relationship_type = "HOUR_RULED_BY"
    /\ TemporalBase(arg.relationship, arg.hour_ruler, arg.day_ruler,
                    arg.current_weekday) * 15 = 27000
    /\ ret.value = 2 * TemporalScale

\* the neighbours of n in graph_data, read as an undirected graph
Adjacent(graph_data, n) ==
    (IF n \in DOMAIN graph_data THEN graph_data[n] ELSE {})
    \cup {m \in DOMAIN graph_data : n \in graph_data[m]}

\* breadth-first search: the distance of target from the nodes of
\* frontier, which are at distance d; -1 if it cannot be reached
RECURSIVE BFSLength(_, _, _, _, _)
BFSLength(graph_data, frontier, seen, target, d) ==
    IF target \in frontier THEN d
    ELSE LET next == UNION {Adjacent(graph_data, n) : n \in frontier} \ seen
         IN  IF next = {} THEN -1
             ELSE BFSLength(graph_data, next, seen \cup next, target, d + 1)

ShortestPathLength(graph_data, source, target) ==
    BFSLength(graph_data, {source}, {source}, target, 0)

\* the weight of the claim for a path length, in tenths
ClaimedProximity(length) ==
    CASE length = 1 -> 10
      [] length = 2 -> 7
      [] length = 3 -> 4
      [] length = 4 -> 2
      [] OTHER -> 1

\* C8 (as claimed): the proximity weight of two distinct entities is the
\* one of the length of the shortest undirected path between them in the
\* supplied graph, 0.1 without a path.
C8_ProximityOfShortestPath ==
    (Returned("calculate_graph_proximity_weight")
     /\ arg.source_entity # arg.target_entity) =>
        ret.value = ClaimedProximity(
            ShortestPathLength(arg.graph_data, arg.source_entity,
                               arg.target_entity))

\* C9: the weights of the path lengths 1, 2, 3, 4 and beyond are exactly
\* 1.0 > 0.7 > 0.4 > 0.2 > 0.1, and every weight
\* calculate_graph_proximity_weight returns is one of the five.
C9_ProximityBuckets ==
    Returned("calculate_graph_proximity_weight") =>
        /\ ret.value \in {10, 7, 4, 2, 1}
        /\ <<ProximityOfLength(1), ProximityOfLength(2), ProximityOfLength(3),
             ProximityOfLength(4)>> = <<10, 7, 4, 2>>
        /\ \A n \in 5..MaxHops : ProximityOfLength(n) = 1
        /\ \A m \in 1..MaxHops : \A n \in 1..MaxHops :
              (m < n /\ m <= 4) => ProximityOfLength(m) > ProximityOfLength(n)

\* C9 witness: a direct connection, weight 1.0
C9_Witness ==
    /\ Returned("calculate_graph_proximity_weight")
    /\ arg.source_entity = "Mars"
    /\ arg.target_entity = "Iron"
    /\ ret.value = 10

\* the raw total of an axis by the claim, in hundredths
ClaimedTotal(hour_ruler, day_ruler, a) ==
    (IF hour_ruler \in DOMAIN ruler_elements
     THEN 10 * ruler_elements[hour_ruler][a] ELSE 0)
    + (IF day_ruler \in DOMAIN ruler_elements /\ day_ruler # hour_ruler
       THEN 6 * ruler_elements[day_ruler][a] ELSE 0)

\* C10: every axis of the weather is the hour ruler's entry x 1.0 plus,
\* for a day ruler that is another planet, its entry x 0.6, divided by the
\* largest such total; Mars over Saturn gives Dry = 1.18 / 1.18,
\* Fire = 0.9 / 1.18, Hot = 0.8 / 1.18, Earth = Cold = 0.54 / 1.18 and 0
\* elsewhere; with one planet ruling hour and day the weather is that of
\* the hour ruler alone.
C10_WeatherFormula ==
    Returned("calculate_current_elemental_weather") =>
        LET hr == arg.hour_ruler
            dr == arg.day_ruler
            m  == SetMax({ClaimedTotal(hr, dr, a) : a \in Axes})
            w  == ret.value
        IN  /\ \A a \in Axes : w.num[a] * m = ClaimedTotal(hr, dr, a) * w.den
            /\ (hr = "Mars" /\ dr = "Saturn") =>
                  /\ m = 118
                  /\ w.num["Dry"] = w.den
                  /\ w.num["Fire"] * 118 = 90 * w.den
                  /\ w.num["Hot"] * 118 = 80 * w.den
                  /\ w.num["Earth"] * 118 = 54 * w.den
                  /\ w.num["Cold"] * 118 = 54 * w.den
                  /\ \A a \in {"Air", "Water", "Moist"} : w.num[a] = 0
            /\ hr = dr =>
                  w = calculate_current_elemental_weather(
                          arg.planetary_positions, hr, None)

\* C10 witness: the weather of a Mars hour on a Saturn day
C10_Witness ==
    /\ Returned("calculate_current_elemental_weather")
    /\ arg.hour_ruler = "Mars"
    /\ arg.day_ruler = "Saturn"
    /\ ret.value.den = 118
    /\ ret.value.num["Dry"] = 118
    /\ ret.value.num["Fire"] = 90

\* the seven classical planets
Rulers7 == {"Sun", "Moon", "Mercury", "Venus", "Mars", "Jupiter", "Saturn"}

\* C11: the weather vector has exactly the eight axes Fire, Earth, Air,
\* Water, Hot, Cold, Dry, Moist, every axis value lies in [0, 1], and with
\* at least one recognized ruler the largest axis value is exactly 1.0.
C11_WeatherNormalized ==
    Returned("calculate_current_elemental_weather") =>
        LET w == ret.value
        IN  /\ DOMAIN w.num = {"Fire", "Earth", "Air", "Water",
                               "Hot", "Cold", "Dry", "Moist"}
            /\ w.den > 0
            /\ \A a \in DOMAIN w.num : 0 <= w.num[a] /\ w.num[a] <= w.den
            /\ (arg.hour_ruler \in Rulers7 \/ arg.day_ruler \in Rulers7)
               => \E a \in DOMAIN w.num : w.num[a] = w.den

\* C11 witness: only the day ruler is recognized; Venus alone gives
\* Moist = 1.0 and Earth = 0.7 / 0.8
C11_Witness ==
    /\ Returned("calculate_current_elemental_weather")
    /\ arg.hour_ruler = None
    /\ arg.day_ruler = "Venus"
    /\ ret.value.num["Moist"] = ret.value.den
    /\ 8 * ret.value.num["Earth"] = 7 * ret.value.den

\* C12: for every target entity and every weather vector, those the
\* aggregator does not produce included, calculate_elemental_dominance
\* returns a value in [0.5, 1.5].
C12_DominanceRange ==
    Returned("calculate_elemental_dominance") =>
        /\ 2 * ret.value.num >= ret.value.den
        /\ 2 * ret.value.num <= 3 * ret.value.den

\* C12 witness: iron under Fire = Dry = -1.5, a vector the aggregator
\* never returns: 1.0 + 0.3 * (-3.0) = 0.1 is returned as 0.5
C12_Witness ==
    /\ Returned("calculate_elemental_dominance")
    /\ arg.target_entity.name = "Iron"
    /\ arg.current_elemental_weather = WeatherOf(-15, -15, 0)
    /\ 2 * ret.value.num = ret.value.den

\* the signatures the claim gives a name: one for each of the metals the
\* name is associated with, the empty one where it is associated with none
ClaimedSignatures(name) ==
    LET sigs == (IF name \in {"Iron", "Ironwood", "Silver Iron"}
                 THEN {{"Fire", "Dry"}} ELSE {})
                \cup (IF name \in {"Silver", "Silver Iron"}
                      THEN {{"Water", "Moist"}} ELSE {})
                \cup (IF name \in {"Gold"} THEN {{"Fire", "Hot"}} ELSE {})
    IN  IF sigs = {} THEN {{}} ELSE sigs

\* clamp(1.0 + 0.3 * sum, 0.5, 1.5) over 10 * w.den
ClaimedAlignment(sig, w) ==
    IF sig = {} THEN 10 * w.den
    ELSE Max(5 * w.den,
             Min(15 * w.den,
                 10 * w.den + 3 * SumOver(w.num, sig \cap DOMAIN w.num)))

\* C13: calculate_elemental_dominance returns 1.0 for an entity without a
\* recognized signature, and otherwise clamp(1.0 + 0.3 * (sum of the
\* weather strengths of the signature's axes), 0.5, 1.5), the signature of
\* iron being {Fire, Dry}, of silver {Water, Moist}, of gold {Fire, Hot}.
C13_DominanceFormula ==
    Returned("calculate_elemental_dominance") =>
        LET w == arg.current_elemental_weather
        IN  \E sig \in ClaimedSignatures(arg.target_entity.name) :
               ret.value.num * 10 * w.den
                 = ClaimedAlignment(sig, w) * ret.value.den

\* C13 witness: gold in a Mars hour of a Saturn day,
\* 1.0 + 0.3 * (0.9 + 0.8) / 1.18, below the upper clamp
C13_Witness ==
    /\ Returned("calculate_elemental_dominance")
    /\ arg.target_entity.name = "Gold"
    /\ arg.current_elemental_weather =
         calculate_current_elemental_weather(EmptyDict, "Mars", "Saturn")
    /\ ret.value.num * 1180 = (1180 + 3 * 170) * ret.value.den

\* data_completeness of the claim, in thousandths: each penalty on its own
ClaimedCompleteness(context) ==
    (IF context.planetary_positions = EmptyDict THEN 5 ELSE 10)
    * (IF context.hour_ruler = None THEN 8 ELSE 10)
    * (IF context.graph_data = EmptyDict THEN 7 ELSE 10)

\* C14 (as claimed): the confidence of a WeightResult is, to its three
\* decimals, data_completeness * min(final_weight / 2.0, 1.0) for the
\* final_weight of that result, data_completeness being the product of the
\* penalties 0.5 / 0.8 / 0.7 for missing positions / hour ruler / graph
\* data; it lies in [0, 1].
C14_ConfidenceOfResult ==
    (Returned("calculate_final_weight") /\ ret.status = "ok") =>
        LET product == ClaimedCompleteness(arg.context)
                       * Min(ret.final_weight, 2000)
            diff == 2000 * ret.confidence - product
        IN  /\ diff <= 1000
            /\ 0 - diff <= 1000
            /\ ret.confidence >= 0
            /\ ret.confidence <= 1000

\* C15 (as claimed): for a context with non-empty planetary positions, the
\* composition of the same relationship in the same context with an empty
\* planetary_positions map has a confidence of at most 0.5 times the
\* confidence of the full-context result.
C15_EmptyPositionsHalveConfidence ==
    (Returned("calculate_final_weight") /\ ret.status = "ok"
     /\ arg.context.planetary_positions # EmptyDict) =>
        LET degraded == calculate_final_weight(
                            arg.relationship,
                            [arg.context EXCEPT
                                !.planetary_positions = EmptyDict],
                            weight_factors)
        IN  2 * degraded.confidence <= ret.confidence

\* the rank labels
RankLabels == {"dominant", "strong", "moderate", "weak", "minimal"}

\* C16: for a relationship with a source planet and a target entity, and a
\* context in which any of planetary_positions, hour_ruler, day_ruler,
\* current_weekday and graph_data are missing or empty,
\* calculate_final_weight does not raise and returns a complete
\* WeightResult: final_weight, breakdown, rank and confidence.
C16_CompleteResult ==
    (Returned("calculate_final_weight")
     /\ arg.relationship.source_planet # None
     /\ arg.relationship.target_entity # NoEntity) =>
        /\ ret.status = "ok"
        /\ DOMAIN ret = {"status", "final_weight", "breakdown", "rank",
                         "confidence"}
        /\ DOMAIN ret.breakdown =
             {"graph_proximity", "astrological_authority",
              "temporal_relevance", "elemental_dominance",
              "elemental_weather"}
        /\ ret.final_weight \in Nat
        /\ ret.rank \in RankLabels
        /\ ret.confidence \in 0..1000

\* C16 witness: all five optional fields missing at once:
\* 0.4 * 0.3 + 0.5 * 0.4 + 0.6 * 0.2 + 1.0 * 0.1 = 0.54, confidence
\* 0.5 * 0.8 * 0.7 * 0.27 = 0.0756
C16_Witness ==
    /\ Returned("calculate_final_weight")
    /\ weight_factors = DefaultFactors
    /\ arg.relationship.source_planet = "Saturn"
    /\ arg.relationship.target_entity = [name |-> "Silver", type |-> "Metal"]
    /\ arg.context = [hour_ruler |-> None, day_ruler |-> None,
                      current_weekday |-> None,
                      planetary_positions |-> EmptyDict,
                      graph_data |-> EmptyDict]
    /\ ret.status = "ok"
    /\ ret.final_weight = 540
    /\ ret.rank = "weak"
    /\ ret.confidence = 76

\* C17 (as claimed): composing a relationship without source planet never
\* yields a WeightResult; it fails with a validation error, whatever the
\* context.
C17_NoSourcePlanetFails ==
    (Returned("calculate_final_weight")
     /\ arg.relationship.source_planet = None) =>
        /\ ret.status = "raised"
        /\ ret.error = "ValidationError"

\* C18 (as claimed): a composition during which the coefficient table is
\* replaced computes its final_weight from one complete table, the old or
\* the new one, never from coefficients of both.
C18_NoMixedCoefficients ==
    (Returned("calculate_final_weight") /\ ret.status = "ok") =>
        \E f \in frame.installed :
           ret.final_weight =
             calculate_final_weight(arg.relationship, arg.context,
                                    f).final_weight

\* the strength of a condition by the rule of section 4.1
ClaimedConditionStrength(condition) ==
    ClaimedStrength(condition.planet, ConditionPosition(condition))

\* C19: the dominance comparison returns the strengths of the hour ruler's
\* and the day ruler's condition by the strength rule and declares the
\* planet of the strictly greater strength dominant; Saturn in Aries at
\* altitude -12, combust (0.09, clamped to 0.1), as hour ruler against
\* Venus in Pisces at altitude 48 (about 1.583) as day ruler: Venus.
C19_DominanceComparison ==
    Returned("calculate_hour_vs_day_dominance") =>
        LET h == arg.hour_condition
            d == arg.day_condition
        IN  /\ ret.hour_weight = ClaimedConditionStrength(h)
            /\ ret.day_weight = ClaimedConditionStrength(d)
            /\ ret.hour_weight > ret.day_weight => ret.dominant = h.planet
            /\ ret.day_weight > ret.hour_weight => ret.dominant = d.planet
            /\ (h = Condition("Saturn", "Aries", -12, TRUE, FALSE)
                /\ d = Condition("Venus", "Pisces", 48, FALSE, FALSE)) =>
                  /\ ret.hour_weight = AuthorityScale \div 10
                  /\ 1000 * ret.day_weight > 1583 * AuthorityScale
                  /\ 1000 * ret.day_weight < 1584 * AuthorityScale
                  /\ ret.dominant = "Venus"

\* C19 witness: scenario A, the day ruler overrides the hour ruler
C19_Witness ==
    /\ Returned("calculate_hour_vs_day_dominance")
    /\ arg.hour_condition = Condition("Saturn", "Aries", -12, TRUE, FALSE)
    /\ arg.day_condition = Condition("Venus", "Pisces", 48, FALSE, FALSE)
    /\ 100 * AuthorityProduct("Saturn",
                              ConditionPosition(arg.hour_condition))
         = 9 * AuthorityScale
    /\ ret.hour_weight = AuthorityScale \div 10
    /\ ret.dominant = "Venus"

\* C20: when the planetary positions hold no condition for the source
\* planet (the planet is absent from the map, or the map is empty), the
\* composition does not raise and the astrological authority it uses, in
\* the breakdown and in the weighted sum, is exactly 0.5.
C20_NeutralAuthority ==
    (Returned("calculate_final_weight")
     /\ arg.relationship.target_entity # NoEntity
     /\ arg.relationship.source_planet
          \notin DOMAIN arg.context.planetary_positions) =>
        LET r == arg.relationship
            c == arg.context
            g == calculate_graph_proximity_weight(
                     r.source_planet, r.target_entity.name, c.graph_data)
            t == calculate_temporal_relevance(
                     r, c.hour_ruler, c.day_ruler, c.current_weekday)
            w == calculate_current_elemental_weather(
                     c.planetary_positions, c.hour_ruler, c.day_ruler)
            e == calculate_elemental_dominance(r.target_entity, w)
            d == w.den
            f == weight_factors
            sum == f.graph_proximity * g * 72000 * d
                   + f.astrological_authority * 360000 * d
                   + f.temporal_relevance * t * 72 * d
                   + f.elemental_dominance * e.num * 72000
        IN  /\ ret.status = "ok"
            /\ ret.breakdown.astrological_authority = 500
            /\ ret.final_weight = RoundHalfEven(sum, 7200 * d)

\* C20 witness: Mars is absent from a map that holds the Moon only
C20_Witness ==
    /\ Returned("calculate_final_weight")
    /\ arg.relationship.source_planet = "Mars"
    /\ arg.relationship.target_entity = [name |-> "Iron", type |-> "Metal"]
    /\ arg.context.planetary_positions = MoonOnly
    /\ ret.status = "ok"
    /\ ret.breakdown.astrological_authority = 500

\* C21: with the default coefficients, the final_weight of every
\* WeightResult is at least 0, whatever the relationship and the context.
C21_FinalWeightNonNegative ==
    (Returned("calculate_final_weight") /\ ret.status = "ok"
     /\ weight_factors = DefaultFactors) =>
        ret.final_weight >= 0

\* C21 witness: the four sub-scores at the low end together: Saturn in its
\* fall, below the horizon, combust and retrograde (0.063, returned as
\* 0.1), ruling the hour of a Saturday and claiming Tuesday:
\* 0.4 * 0.3 + 0.1 * 0.4 + 0.54 * 0.2 + 1.0 * 0.1 = 0.368
C21_Witness ==
    /\ Returned("calculate_final_weight")
    /\ weight_factors = DefaultFactors
    /\ arg.relationship =
         Flat("Saturn", [name |-> "Tuesday", type |-> "Weekday"],
              "DAY_RULED_BY")
    /\ arg.context.hour_ruler = "Saturn"
    /\ arg.context.current_weekday = "Saturday"
    /\ ret.status = "ok"
    /\ ret.breakdown.astrological_authority = 100
    /\ ret.breakdown.temporal_relevance = 540
    /\ ret.final_weight = 368

\* C22 (as claimed): in a composition of a source planet with a target
\* entity of type Weekday, the weekday known, the temporal_relevance of
\* the breakdown carries the 0.3 penalty when the source planet rules the
\* hour and the entity's name is not the current weekday,
\* 1.8 * 0.3 * typeMult, and the 1.3 bonus when the source planet rules the
\* day, not the hour, and the entity's name is the current weekday,
\* 1.2 * 1.3 * typeMult, each clamped to [0.1, 2.0].
C22_WeekdayEntityPenaltyAndBonus ==
    (Returned("calculate_final_weight") /\ ret.status = "ok"
     /\ arg.relationship.target_entity.type = "Weekday"
     /\ arg.relationship.source_planet # None
     /\ arg.context.current_weekday # None) =>
        LET r == arg.relationship
            c == arg.context
            typeMult == CASE r.relationship_type = "HOUR_RULED_BY" -> 15
                          [] r.relationship_type = "HAS_ANALOGY_WITH" -> 8
                          [] OTHER -> 10
        IN  /\ (r.source_planet = c.hour_ruler
                /\ r.target_entity.name # c.current_weekday) =>
                  ret.breakdown.temporal_relevance =
                    Max(100, Min(2000, (540 * typeMult) \div 10))
            /\ (r.source_planet # c.hour_ruler
                /\ r.source_planet = c.day_ruler
                /\ r.target_entity.name = c.current_weekday) =>
                  ret.breakdown.temporal_relevance =
                    Max(100, Min(2000, (1560 * typeMult) \div 10))

\* C23 (as claimed): for a planet outside the dignity catalog with any sign
\* value, a missing or null sign included, and for a catalogued planet in a
\* sign that is none of its four dignity signs, the dignity multiplier is
\* the neutral 1.0, and the strength is the one that multiplier gives.
C23_NeutralDignity ==
    (Returned("calculate_astrological_authority")
     /\ arg.planet \in DOMAIN arg.planetary_positions
     /\ \/ arg.planet \notin DOMAIN ESSENTIAL_DIGNITIES
        \/ arg.planetary_positions[arg.planet].sign
             \notin {ESSENTIAL_DIGNITIES[arg.planet][k] :
                        k \in {"rulership", "exaltation", "detriment",
                               "fall"}}) =>
        LET position == arg.planetary_positions[arg.planet]
        IN  /\ _get_dignity_multiplier(arg.planet, position.sign) = 4
            /\ ret.value = ClaimedStrength(arg.planet, position)

\* C24: when neither the hour ruler nor the day ruler of the context is one
\* of the seven classical planets, both missing included, the weather of
\* the composition has the eight axes all at 0, no division having taken
\* place, and the elemental_dominance of the result is exactly 1.0 whatever
\* the target entity.
C24_ZeroWeatherIsNeutral ==
    (Returned("calculate_final_weight") /\ ret.status = "ok"
     /\ arg.context.hour_ruler \notin Rulers7
     /\ arg.context.day_ruler \notin Rulers7) =>
        /\ DOMAIN ret.breakdown.elemental_weather.num = Axes
        /\ \A a \in Axes : ret.breakdown.elemental_weather.num[a] = 0
        /\ ret.breakdown.elemental_weather.den = 1
        /\ ret.breakdown.elemental_dominance = 1000

\* C24 witness: an hour ruler outside the seven, no day ruler, and a target
\* with an elemental signature (Iron: Fire and Dry)
C24_Witness ==
    /\ Returned("calculate_final_weight")
    /\ arg.context.hour_ruler = "Pluto"
    /\ arg.context.day_ruler = None
    /\ arg.relationship.target_entity = [name |-> "Iron", type |-> "Metal"]
    /\ _get_entity_elements(arg.relationship.target_entity) = {"Fire", "Dry"}
    /\ ret.status = "ok"
    /\ \A a \in Axes : ret.breakdown.elemental_weather.num[a] = 0
    /\ ret.breakdown.elemental_dominance = 1000

\* C25 (as claimed): proximity is symmetric: the weight
\* calculate_graph_proximity_weight returns for (a, b, graph) is the weight
\* it returns for (b, a, graph).
C25_ProximitySymmetric ==
    Returned("calculate_graph_proximity_weight") =>
        ret.value = calculate_graph_proximity_weight(
                        arg.target_entity, arg.source_entity, arg.graph_data)

\* the weighted sum of the sub-scores a result reports in its breakdown, in
\* ten-thousandths, for coefficients in tenths
BreakdownSum(result, factors) ==
    factors.graph_proximity * result.breakdown.graph_proximity
    + factors.astrological_authority * result.breakdown.astrological_authority
    + factors.temporal_relevance * result.breakdown.temporal_relevance
    + factors.elemental_dominance * result.breakdown.elemental_dominance

\* C26 (as claimed): the final_weight of every WeightResult is the sum of
\* the four sub-scores of its breakdown, as reported to 3 decimals, times
\* their coefficients, rounded to 3 decimals.
C26_FinalWeightOfReportedBreakdown ==
    (Returned("calculate_final_weight") /\ ret.status = "ok") =>
        ret.final_weight = RoundHalfEven(BreakdownSum(ret, weight_factors), 10)

\* C26 (amended): the final_weight is the coefficient-weighted sum of the
\* four sub-scores as computed, rounded to 3 decimals, and the breakdown
\* reports each of the same sub-scores rounded to 3 decimals; the
\* final_weight therefore differs from the weighted sum of the reported
\* values by at most 0.0005 * (1 + the sum of the coefficients), which is
\* 0.001 for coefficients that sum to 1.
C26_FinalWeightNearReportedBreakdown ==
    (Returned("calculate_final_weight") /\ ret.status = "ok") =>
        LET r == arg.relationship
            c == arg.context
            f == weight_factors
            g == calculate_graph_proximity_weight(
                     r.source_planet, r.target_entity.name, c.graph_data)
            a == calculate_astrological_authority(
                     r.source_planet, c.planetary_positions)
            t == calculate_temporal_relevance(
                     r, c.hour_ruler, c.day_ruler, c.current_weekday)
            w == calculate_current_elemental_weather(
                     c.planetary_positions, c.hour_ruler, c.day_ruler)
            e == calculate_elemental_dominance(r.target_entity, w)
            d == w.den
            sum == f.graph_proximity * g * 72000 * d
                   + f.astrological_authority * a * d
                   + f.temporal_relevance * t * 72 * d
                   + f.elemental_dominance * e.num * 72000
            gap == 10 * ret.final_weight - BreakdownSum(ret, f)
            coefficients == f.graph_proximity + f.astrological_authority
                            + f.temporal_relevance + f.elemental_dominance
        IN  /\ ret.final_weight = RoundHalfEven(sum, 7200 * d)
            /\ ret.breakdown.graph_proximity = 100 * g
            /\ ret.breakdown.astrological_authority = RoundHalfEven(a, 720)
            /\ ret.breakdown.temporal_relevance = RoundHalfEven(t, 10)
            /\ ret.breakdown.elemental_dominance
                 = RoundHalfEven(100 * e.num, d)
            /\ 10 * gap <= 50 + 5 * coefficients
            /\ 10 * gap >= 0 - (50 + 5 * coefficients)

\* C26 witness: Saturn in Aries at altitude 48, cazimi and retrograde, has
\* authority 0.57633..., reported as 0.576; the final_weight is
\* round(0.570533...) = 0.571 while the reported sub-scores give
\* 0.12 + 0.2304 + 0.12 + 0.1 = 0.5704, which rounds to 0.570
C26_Witness ==
    /\ Returned("calculate_final_weight")
    /\ weight_factors = DefaultFactors
    /\ ret.status = "ok"
    /\ ret.breakdown.graph_proximity = 400
    /\ ret.breakdown.astrological_authority = 576
    /\ ret.breakdown.temporal_relevance = 600
    /\ ret.breakdown.elemental_dominance = 1000
    /\ BreakdownSum(ret, weight_factors) = 5704
    /\ ret.final_weight = 571

\* the relevance of the relationship with source in the place of its source
\* planet, in the context of the call
RelevanceOfSource(source) ==
    calculate_temporal_relevance(
        [arg.relationship EXCEPT !.source_planet = source],
        arg.hour_ruler, arg.day_ruler, arg.current_weekday)

\* C27: for every relationship type and every target that is not a Weekday
\* other than the current weekday, with distinct hour and day rulers, the
\* relevance with the hour ruler as source is at least the relevance with
\* the day ruler as source, which is at least the relevance with a planet
\* that rules neither.
C27_RelevanceOrderedByRole ==
    (Returned("calculate_temporal_relevance")
     /\ arg.hour_ruler # arg.day_ruler
     /\ ~(arg.relationship.target_type = "Weekday"
          /\ arg.relationship.target_name # arg.current_weekday)) =>
        LET source == arg.relationship.source_planet
            others == {"Mars", "Saturn", "Moon"}
                          \ {arg.hour_ruler, arg.day_ruler}
        IN  /\ source = arg.hour_ruler =>
                 /\ ret.value >= RelevanceOfSource(arg.day_ruler)
                 /\ \A p \in others : ret.value >= RelevanceOfSource(p)
            /\ source = arg.day_ruler =>
                 /\ ret.value <= RelevanceOfSource(arg.hour_ruler)
                 /\ \A p \in others : ret.value >= RelevanceOfSource(p)
            /\ source \in others =>
                 /\ ret.value <= RelevanceOfSource(arg.day_ruler)
                 /\ ret.value <= RelevanceOfSource(arg.hour_ruler)

\* C27 witness: Saturn, ruler of the day, with the Weekday target of the
\* current weekday: 1.2 * 1.3 = 1.56, between the 1.8 of Mars, ruler of the
\* hour, and the 0.6 of the Moon
C27_Witness ==
    /\ Returned("calculate_temporal_relevance")
    /\ arg.hour_ruler = "Mars"
    /\ arg.day_ruler = "Saturn"
    /\ arg.relationship.source_planet = "Saturn"
    /\ arg.relationship.target_type = "Weekday"
    /\ arg.relationship.target_name = "Saturday"
    /\ arg.current_weekday = "Saturday"
    /\ arg.relationship.relationship_type = "DAY_RULED_BY"
    /\ ret.value = 15600
    /\ RelevanceOfSource("Mars") = 18000
    /\ RelevanceOfSource("Moon") = 6000

\* C28: for a pair whose source equals its target the shortest path length
\* is 0 and calculate_graph_proximity_weight returns the lowest weight,
\* 0.1, whatever the graph.
C28_SelfPairLowestWeight ==
    (Returned("calculate_graph_proximity_weight")
     /\ arg.source_entity = arg.target_entity) =>
        /\ _find_shortest_path_length(arg.source_entity, arg.target_entity,
                                      arg.graph_data) = 0
        /\ ret.value = 1

\* C28 witness: Mars against itself in a graph in which Mars has a
\* neighbour
C28_Witness ==
    /\ Returned("calculate_graph_proximity_weight")
    /\ arg.source_entity = "Mars"
    /\ arg.target_entity = "Mars"
    /\ arg.graph_data = GraphOf(ChainEdges)
    /\ "Iron" \in arg.graph_data["Mars"]
    /\ ret.value = 1

\* C29: for a condition whose altitude lies in [-90, 90] the product of the
\* multipliers is at most 1.5 * 1.5 * 1.3 = 2.925, so the strength
\* calculate_astrological_authority returns is at most 2.925 and the upper
\* clamp 3.0 is never the value returned.
C29_StrengthBelowCeiling ==
    (Returned("calculate_astrological_authority")
     /\ arg.planet \in DOMAIN arg.planetary_positions
     /\ arg.planetary_positions[arg.planet].altitude \in (0 - 90)..90) =>
        /\ AuthorityProduct(arg.planet, arg.planetary_positions[arg.planet])
             <= 2925 * (AuthorityScale \div 1000)
        /\ ret.value <= 2925 * (AuthorityScale \div 1000)
        /\ ret.value < 3 * AuthorityScale

\* C29 witness: Mars in its domicile, at the zenith and cazimi: exactly
\* 2.925
C29_Witness ==
    /\ Returned("calculate_astrological_authority")
    /\ arg.planet = "Mars"
    /\ arg.planetary_positions =
         ("Mars" :> [sign |-> "Aries", altitude |-> 90,
                     is_cazimi |-> TRUE, is_combust |-> FALSE,
                     is_retrograde |-> FALSE, is_out_of_bounds |-> FALSE])
    /\ ret.value = 2925 * (AuthorityScale \div 1000)

\* the weather vectors calculate_current_elemental_weather returns, over
\* all hour and day rulers
ProducedWeather ==
    {calculate_current_elemental_weather(EmptyDict, hr, dr) :
        hr \in PlanetNames \cup {None}, dr \in PlanetNames \cup {None}}

\* C30: for every target entity and every weather vector that
\* calculate_current_elemental_weather produces, the alignment is at least
\* 1.0: the score does not fall below its seed, the lower clamp 0.5 is not
\* reached, and the alignment lies in [1.0, 1.5].
C30_AlignmentAtLeastSeed ==
    (Returned("calculate_elemental_dominance")
     /\ arg.current_elemental_weather \in ProducedWeather) =>
        LET w == arg.current_elemental_weather
            shared == DOMAIN w.num
                          \cap _get_entity_elements(arg.target_entity)
        IN  /\ \A a \in DOMAIN w.num : w.num[a] >= 0
            /\ 10 * w.den + 3 * SumOver(w.num, shared) >= 10 * w.den
            /\ ret.value.num >= ret.value.den
            /\ 10 * ret.value.num <= 15 * ret.value.den
            /\ 10 * ret.value.num # 5 * ret.value.den

\* C30 witness: Silver (Water, Moist) in the weather of a Mars hour on a
\* Saturn day, which has neither: the alignment stays at the seed 1.0
C30_Witness ==
    /\ Returned("calculate_elemental_dominance")
    /\ arg.target_entity.name = "Silver"
    /\ _get_entity_elements(arg.target_entity) = {"Water", "Moist"}
    /\ arg.current_elemental_weather
         = calculate_current_elemental_weather(EmptyDict, "Mars", "Saturn")
    /\ arg.current_elemental_weather.num["Dry"] > 0
    /\ arg.current_elemental_weather.num["Water"] = 0
    /\ ret.value.num = ret.value.den

====
